---- MODULE Spec2Model ----
(***************************************************************************)
(* Model of the in-memory SQL statistics writer                            *)
(* (pkg/sql/sqlstats/ssmemstorage/ss_mem_writer.go): Container's           *)
(* RecordStatement, RecordStatementExecStats and RecordTransaction, run by *)
(* concurrent callers against one Container.                               *)
(*                                                                         *)
(* Every operation is cut into steps at the places where it takes a lock   *)
(* (stats.mu, s.mu): between two such places a caller touches only state   *)
(* it holds the lock of, or its own locals.  The online statistics,        *)
(* the node/region/plan-gist sets and the flags of an entry (lines         *)
(* 105-142 and 255-289) are written under the same lock as Count and are   *)
(* left out of the entry records.                                          *)
(***************************************************************************)
EXTENDS Integers, Sequences, FiniteSets, TLC

\* ------------------------------------------------------------- bounds
NProcs == 2
MaxCalls == 2
NKeys == 2
MaxRetry == 2
MaxFlushes == 1
PositiveThreshold == 2
MaxFingerprintLimit == 2
MemoryBudget == 285

Procs == 1..NProcs
Keys == 1..NKeys
Thresholds == {0, PositiveThreshold}
Latencies == (PositiveThreshold - 1)..(PositiveThreshold + 1)
\* The engine's statement errors: a message and a pg error code each.
StatementErrors ==
  {[msg |-> "duplicate key", code |-> "23505"],
   [msg |-> "division by zero", code |-> "22012"]}
NilError == [msg |-> "", code |-> ""]

\* ------------------------------------------------------------- errors
NoErr == "nil"
ErrMemoryPressure == "insufficient sql stats memory"
ErrFingerprintLimitReached == "sql stats fingerprint limit reached"
ErrExecStatsFingerprintFlushed == "stmtStats flushed before execution stats can be recorded"

timestampSize == 24
HashSize == 8

\* ------------------------------------------------------------- state
VARIABLES
  monitored,          \* s.mu.acc.Monitor() != nil
  acc,                \* s.mu.acc: bytes reserved
  stmts,              \* s.mu.stmts: key -> index into stmtObjs, 0 when absent
  txns,               \* s.mu.txns: key -> index into txnObjs, 0 when absent
  stmtObjs,           \* the *stmtStats objects ever allocated
  txnObjs,            \* the *txnStats objects ever allocated
  smu,                \* s.mu: the caller holding it, 0 when free
  uniqueCount,        \* the fingerprint limiter's count of tracked keys
  fingerprintLimit,   \* the limiter's cap, set when the server is configured
  txnCounts,          \* s.txnCounts: the lightweight transaction counter
  proc,               \* each caller's position, arguments, locals and result,
                      \* and the values its reads of the cluster settings return
  applied,            \* history: per stmtStats object, the AutoRetryCount of
                      \* each RecordStatement update applied to it, in order
  calls,              \* history: calls started
  flushes             \* history: external flushes done

vars == <<monitored, acc, stmts, txns, stmtObjs, txnObjs, smu, uniqueCount,
          fingerprintLimit, txnCounts, proc, applied, calls, flushes>>

NoValue == [none |-> TRUE]

\* sqlstats.RecordedStmtStats: the fields the entry's counters depend on.
\* Each field is varied with the others at their plain value.
StmtValue(failed, err, retries, latency) ==
  [Failed |-> failed, StatementError |-> err, AutoRetryCount |-> retries,
   ServiceLatency |-> latency]

StmtValues ==
  {StmtValue(FALSE, NilError, r, PositiveThreshold + 1) : r \in 0..MaxRetry}
  \cup {StmtValue(TRUE, e, 0, PositiveThreshold + 1) : e \in StatementErrors}
  \cup {StmtValue(FALSE, NilError, 0, l) : l \in Latencies}

\* sqlstats.RecordedTxnStats
TxnValues == [RetryCount : {0, MaxRetry}, CollectedExecStats : BOOLEAN]

\* The cluster settings (s.st.SV) are owned by the environment and change at
\* any time; a call sees them only where it reads them (lines 59, 61, 206,
\* 212, 298).  The values those reads return are inputs of the call.
NoSettings == [none |-> TRUE]
StmtSettings == [StmtStatsEnable : BOOLEAN, LatencyThreshold : Thresholds]
TxnSettings == [TxnStatsEnable : BOOLEAN, LatencyThreshold : Thresholds]

IdleProc ==
  [pc |-> "idle", op |-> "none", key |-> 0, value |-> NoValue,
   sv |-> NoSettings, stats |-> 0, created |-> FALSE, cnt |-> 0, id |-> 0,
   err |-> NoErr]

Init ==
  /\ monitored \in BOOLEAN
  /\ acc = 0
  /\ stmts = [k \in Keys |-> 0]
  /\ txns = [k \in Keys |-> 0]
  /\ stmtObjs = <<>>
  /\ txnObjs = <<>>
  /\ smu = 0
  /\ uniqueCount = 0
  /\ fingerprintLimit \in 1..MaxFingerprintLimit
  /\ txnCounts = 0
  /\ proc = [p \in Procs |-> IdleProc]
  /\ applied = <<>>
  /\ calls = 0
  /\ flushes = 0

\* ------------------------------------------------- external collaborators

\* The statement fingerprint identifier: a hash of the key's fields alone.
constructStatementFingerprintID(k) == 1000 + 7 * k

\* error.Error() and pgerror.GetPGCode(err).String()
Error(e) == e.msg
GetPGCode(e) == e.code

\* stmtStats.sizeUnsafeLocked(), stmtKey.size(), sampledPlanKey.size(),
\* txnStats.sizeUnsafeLocked(), TransactionFingerprintID.Size()
stmtStatsSize == 96
stmtKeySize(k) == 40 + 2 * k
sampledPlanKeySize(k) == 24 + k
txnStatsSize == 64
txnKeySize(k) == 8

\* BoundAccount.Grow: refused when the budget would be exceeded, or when
\* the context is canceled at the budget check; a refused Grow reserves
\* nothing.
GrowOK(x, canceled) == ~canceled /\ acc + x <= MemoryBudget

\* The limiter refuses only once the cap is already exceeded.
LimiterOffByOne == uniqueCount > fingerprintLimit

\* The limiter's decision for a key that has no entry.
LimiterRefuses == uniqueCount >= fingerprintLimit

\* The entry is put in the map before its identifier is set.
StmtStatsWithoutID(id) ==
  [ID |-> 0, Count |-> 0, FailureCount |-> 0, FirstAttemptCount |-> 0,
   MaxRetries |-> 0, LastErr |-> "", LastErrorCode |-> "",
   ExecStatsCount |-> 0, mu |-> 0]

NewStmtStats(id) ==
  [ID |-> id, Count |-> 0, FailureCount |-> 0, FirstAttemptCount |-> 0,
   MaxRetries |-> 0, LastErr |-> "", LastErrorCode |-> "",
   ExecStatsCount |-> 0, mu |-> 0]

NewTxnStats == [Count |-> 0, MaxRetries |-> 0, ExecStatsCount |-> 0, mu |-> 0]

\* The lookup-or-create step without the lookup: an entry is made for the
\* key even when the map already holds one.
getStatsForStmtNoLookup(k, createIfNonExistent) ==
  LET id == constructStatementFingerprintID(k) IN
  IF ~createIfNonExistent
    THEN [stats |-> stmts[k], id |-> id, created |-> FALSE, throttled |-> FALSE,
          stmts |-> stmts, objs |-> stmtObjs, count |-> uniqueCount]
  ELSE IF LimiterRefuses
    THEN [stats |-> 0, id |-> id, created |-> FALSE, throttled |-> TRUE,
          stmts |-> stmts, objs |-> stmtObjs, count |-> uniqueCount]
  ELSE [stats |-> Len(stmtObjs) + 1, id |-> id, created |-> TRUE,
        throttled |-> FALSE,
        stmts |-> [stmts EXCEPT ![k] = Len(stmtObjs) + 1],
        objs |-> Append(stmtObjs, NewStmtStats(id)),
        count |-> uniqueCount + 1]

\* Container.getStatsForStmt: the lookup-or-create step, done under s.mu.
\* Yields the locals of the caller and the maps after the step.
getStatsForStmt(k, createIfNonExistent) ==
  LET id == constructStatementFingerprintID(k) IN
  IF stmts[k] # 0 \/ ~createIfNonExistent
    THEN [stats |-> stmts[k], id |-> id, created |-> FALSE, throttled |-> FALSE,
          stmts |-> stmts, objs |-> stmtObjs, count |-> uniqueCount]
  ELSE IF LimiterRefuses
    THEN [stats |-> 0, id |-> id, created |-> FALSE, throttled |-> TRUE,
          stmts |-> stmts, objs |-> stmtObjs, count |-> uniqueCount]
  ELSE [stats |-> Len(stmtObjs) + 1, id |-> id, created |-> TRUE,
        throttled |-> FALSE,
        stmts |-> [stmts EXCEPT ![k] = Len(stmtObjs) + 1],
        objs |-> Append(stmtObjs, NewStmtStats(id)),
        count |-> uniqueCount + 1]

\* Container.getStatsForTxnWithKey, as getStatsForStmt.
getStatsForTxnWithKey(k, createIfNonExistent) ==
  IF txns[k] # 0 \/ ~createIfNonExistent
    THEN [stats |-> txns[k], created |-> FALSE, throttled |-> FALSE,
          txns |-> txns, objs |-> txnObjs, count |-> uniqueCount]
  ELSE IF LimiterRefuses
    THEN [stats |-> 0, created |-> FALSE, throttled |-> TRUE,
          txns |-> txns, objs |-> txnObjs, count |-> uniqueCount]
  ELSE [stats |-> Len(txnObjs) + 1, created |-> TRUE, throttled |-> FALSE,
        txns |-> [txns EXCEPT ![k] = Len(txnObjs) + 1],
        objs |-> Append(txnObjs, NewTxnStats),
        count |-> uniqueCount + 1]

\* ------------------------------------------------------ shared helpers

\* The entry's lock excludes nobody.
MuNeverHeld(holder) == TRUE

\* stats.mu.Lock() goes through only when nobody holds the entry's lock.
MuFree(holder) == holder = 0

\* The memory monitor is taken to be present whatever the container has.
MonitorNeverNil == FALSE

\* lines 155 and 241: s.mu.acc.Monitor() == nil, the container tracks no
\* memory
MonitorIsNil == ~monitored

\* s.mu stays with the caller that locked it.
ContainerStillLocked(p) == p

\* lines 152 and 238: the deferred s.mu.Unlock(); the holder of s.mu once
\* caller p is through the accounting section
ContainerUnlocked(p) == 0

\* A call returns: the result is kept in the caller's record until its
\* next call starts; the arguments' value and the locals are dropped.
Return(p, id, err) ==
  [proc EXCEPT ![p] = [@ EXCEPT !.pc = "idle", !.value = NoValue,
                                !.sv = NoSettings, !.stats = 0, !.cnt = 0,
                                !.id = id, !.err = err]]

Call(p, op, k, v, sv, pc) ==
  [proc EXCEPT ![p] = [IdleProc EXCEPT !.pc = pc, !.op = op, !.key = k,
                                       !.value = v, !.sv = sv]]

\* -------------------------------------------------- RecordStatement

\* The enable flag is not consulted.
createIgnoringEnable(sv, v) ==
  ~(sv.LatencyThreshold > 0 /\ sv.LatencyThreshold >= v.ServiceLatency)

\* lines 55-63
createIfNonExistent(sv, v) ==
  ~(~sv.StmtStatsEnable \/
    (sv.LatencyThreshold > 0 /\ sv.LatencyThreshold >= v.ServiceLatency))

CallRecordStatement(p) ==
  /\ proc[p].pc = "idle"
  /\ calls < MaxCalls
  /\ \E k \in Keys, v \in StmtValues, sv \in StmtSettings :
       proc' = Call(p, "RecordStatement", k, v, sv, "s_get")
  /\ calls' = calls + 1
  /\ UNCHANGED <<monitored, fingerprintLimit, acc, stmts, txns, stmtObjs, txnObjs, smu,
                 uniqueCount, txnCounts, applied, flushes>>

\* The limiter's refusal is taken for a skip: the call returns nil.
GetOutcomeSwallowed(throttled, create) ==
  IF throttled \/ ~create THEN "skip" ELSE "record"

\* lines 75-87: what the call does with the outcome of the lookup
GetOutcome(throttled, create) ==
  IF throttled THEN "limit" ELSE IF ~create THEN "skip" ELSE "record"

\* lines 55-87: the configuration is read, the entry looked up or created
RecordStatementGet(p) ==
  /\ proc[p].pc = "s_get"
  /\ smu = 0
  /\ LET create == createIfNonExistent(proc[p].sv, proc[p].value)
         r == getStatsForStmt(proc[p].key, create)
     IN /\ stmts' = r.stmts
        /\ stmtObjs' = r.objs
        /\ uniqueCount' = r.count
        /\ applied' = IF r.created THEN Append(applied, <<>>) ELSE applied
        /\ proc' = IF GetOutcome(r.throttled, create) = "limit"
                     THEN Return(p, r.id, ErrFingerprintLimitReached)
                   ELSE IF GetOutcome(r.throttled, create) = "skip"
                     THEN Return(p, r.id, NoErr)
                   ELSE [proc EXCEPT ![p] = [@ EXCEPT !.pc = "s_lock",
                                                      !.sv = NoSettings,
                                                      !.stats = r.stats,
                                                      !.created = r.created,
                                                      !.id = r.id]]
  /\ UNCHANGED <<monitored, fingerprintLimit, acc, txns, txnObjs, smu, txnCounts,
                 calls, flushes>>

\* line 90, and the load of Count that line 93's increment starts with
RecordStatementLock(p) ==
  /\ proc[p].pc = "s_lock"
  /\ MuFree(stmtObjs[proc[p].stats].mu)
  /\ stmtObjs' = [stmtObjs EXCEPT ![proc[p].stats].mu = p]
  /\ proc' = [proc EXCEPT ![p] = [@ EXCEPT !.pc = "s_update",
                                           !.cnt = stmtObjs[proc[p].stats].Count]]
  /\ UNCHANGED <<monitored, fingerprintLimit, acc, stmts, txns, txnObjs, smu,
                 uniqueCount, txnCounts, applied, calls, flushes>>

\* MaxRetries takes the latest retry count instead of the largest.
RetryUpdateLastWins(e, retries) ==
  IF retries = 0
    THEN [e EXCEPT !.FirstAttemptCount = @ + 1]
  ELSE [e EXCEPT !.MaxRetries = retries]

\* lines 99-103
RetryUpdate(e, retries) ==
  IF retries = 0
    THEN [e EXCEPT !.FirstAttemptCount = @ + 1]
  ELSE IF retries > e.MaxRetries
    THEN [e EXCEPT !.MaxRetries = retries]
  ELSE e

\* The last error code is set only while none is recorded yet.
FailureUpdateFirstCode(e, v) ==
  IF v.Failed
    THEN [e EXCEPT !.LastErr = Error(v.StatementError),
                   !.LastErrorCode = IF @ = "" THEN GetPGCode(v.StatementError)
                                     ELSE @,
                   !.FailureCount = @ + 1]
  ELSE e

\* lines 94-98
FailureUpdate(e, v) ==
  IF v.Failed
    THEN [e EXCEPT !.LastErr = Error(v.StatementError),
                   !.LastErrorCode = GetPGCode(v.StatementError),
                   !.FailureCount = @ + 1]
  ELSE e

\* lines 93-142: the update of the entry, under stats.mu
UpdateStmtStats(e, cnt, v) ==
  RetryUpdate(FailureUpdate([e EXCEPT !.Count = cnt + 1], v), v.AutoRetryCount)

\* The zero identifier returned along with an error.
ZeroIDOnError(e, err) == IF err = NoErr THEN e.ID ELSE 0

\* lines 156, 163, 167: the identifier returned once the entry is updated
RecordedID(e, err) == e.ID

RecordStatementUpdate(p) ==
  /\ proc[p].pc = "s_update"
  /\ LET i == proc[p].stats
         e == UpdateStmtStats(stmtObjs[i], proc[p].cnt, proc[p].value)
     IN /\ applied' = [applied EXCEPT ![i] = Append(@, proc[p].value.AutoRetryCount)]
        /\ IF proc[p].created
             THEN /\ stmtObjs' = [stmtObjs EXCEPT ![i] = e]
                  /\ proc' = [proc EXCEPT ![p] = [@ EXCEPT !.pc = "s_smu"]]
             ELSE /\ stmtObjs' = [stmtObjs EXCEPT ![i] = [e EXCEPT !.mu = 0]]
                  /\ proc' = Return(p, RecordedID(e, NoErr), NoErr)
  /\ UNCHANGED <<monitored, fingerprintLimit, acc, stmts, txns, txnObjs, smu,
                 uniqueCount, txnCounts, calls, flushes>>

\* line 151
RecordStatementLockContainer(p) ==
  /\ proc[p].pc = "s_smu"
  /\ smu = 0
  /\ smu' = p
  /\ proc' = [proc EXCEPT ![p] = [@ EXCEPT !.pc = "s_account"]]
  /\ UNCHANGED <<monitored, fingerprintLimit, acc, stmts, txns, stmtObjs, txnObjs,
                 uniqueCount, txnCounts, applied, calls, flushes>>

\* lines 146-150
estimatedMemoryAllocBytes(k) ==
  stmtStatsSize + stmtKeySize(k) + HashSize
    + timestampSize + sampledPlanKeySize(k) + HashSize

\* The entry is left in the map when Grow fails.
StmtsKept(k, ok) == stmts

\* lines 161-164: the entry just created is deleted when Grow fails
StmtsAfterGrow(k, ok) == IF ok THEN stmts ELSE [stmts EXCEPT ![k] = 0]

\* lines 161-167
ErrAfterGrow(ok) == IF ok THEN NoErr ELSE ErrMemoryPressure

\* lines 154-167, and the deferred unlocks of s.mu and stats.mu
RecordStatementAccount(p) ==
  /\ proc[p].pc = "s_account"
  /\ LET i == proc[p].stats
         k == proc[p].key
         x == estimatedMemoryAllocBytes(k)
     IN /\ IF MonitorIsNil
             THEN /\ UNCHANGED <<acc, stmts>>
                  /\ proc' = Return(p, RecordedID(stmtObjs[i], NoErr), NoErr)
             ELSE \E canceled \in BOOLEAN :
                    LET ok == GrowOK(x, canceled) IN
                    /\ acc' = IF ok THEN acc + x ELSE acc
                    /\ stmts' = StmtsAfterGrow(k, ok)
                    /\ proc' = Return(p, RecordedID(stmtObjs[i], ErrAfterGrow(ok)),
                                       ErrAfterGrow(ok))
        /\ stmtObjs' = [stmtObjs EXCEPT ![i].mu = 0]
  /\ smu' = ContainerUnlocked(p)
  /\ UNCHANGED <<monitored, fingerprintLimit, txns, txnObjs, uniqueCount, txnCounts,
                 applied, calls, flushes>>

\* ------------------------------------------- RecordStatementExecStats

CallRecordStatementExecStats(p) ==
  /\ proc[p].pc = "idle"
  /\ calls < MaxCalls
  /\ \E k \in Keys :
       proc' = Call(p, "RecordStatementExecStats", k, NoValue, NoSettings,
                    "e_get")
  /\ calls' = calls + 1
  /\ UNCHANGED <<monitored, fingerprintLimit, acc, stmts, txns, stmtObjs, txnObjs, smu,
                 uniqueCount, txnCounts, applied, flushes>>

\* The lookup is asked to create the entry.
ExecStatsCreates == TRUE

\* line 180
ExecStatsCreateIfNotExists == FALSE

\* lines 173-184
RecordStatementExecStatsGet(p) ==
  /\ proc[p].pc = "e_get"
  /\ smu = 0
  /\ LET r == getStatsForStmt(proc[p].key, ExecStatsCreateIfNotExists)
     IN /\ stmts' = r.stmts
        /\ stmtObjs' = r.objs
        /\ uniqueCount' = r.count
        /\ applied' = IF r.created THEN Append(applied, <<>>) ELSE applied
        /\ proc' = IF r.stats = 0
                     THEN Return(p, 0, ErrExecStatsFingerprintFlushed)
                   ELSE [proc EXCEPT ![p] = [@ EXCEPT !.pc = "e_record",
                                                      !.stats = r.stats]]
  /\ UNCHANGED <<monitored, fingerprintLimit, acc, txns, txnObjs, smu, txnCounts,
                 calls, flushes>>

\* lines 185-186: stmtStats.recordExecStats locks the entry, merges the
\* sample and unlocks
RecordStatementExecStatsRecord(p) ==
  /\ proc[p].pc = "e_record"
  /\ MuFree(stmtObjs[proc[p].stats].mu)
  /\ stmtObjs' = [stmtObjs EXCEPT ![proc[p].stats].ExecStatsCount = @ + 1]
  /\ proc' = Return(p, 0, NoErr)
  /\ UNCHANGED <<monitored, fingerprintLimit, acc, stmts, txns, txnObjs, smu,
                 uniqueCount, txnCounts, applied, calls, flushes>>

\* -------------------------------------------------- RecordTransaction

CallRecordTransaction(p) ==
  /\ proc[p].pc = "idle"
  /\ calls < MaxCalls
  /\ \E k \in Keys, v \in TxnValues, sv \in TxnSettings :
       proc' = Call(p, "RecordTransaction", k, v, sv, "t_counts")
  /\ calls' = calls + 1
  /\ UNCHANGED <<monitored, fingerprintLimit, acc, stmts, txns, stmtObjs, txnObjs, smu,
                 uniqueCount, txnCounts, applied, flushes>>

\* The counter is incremented whatever the option says.
countsWhateverEnable(sv, n) == n + 1

\* lines 294-302
recordTransactionHighLevelStats(sv, n) ==
  IF ~sv.TxnStatsEnable THEN n ELSE n + 1

\* line 203; TxnStatsEnable is read again at line 206 and may have changed
RecordTransactionCounts(p) ==
  /\ proc[p].pc = "t_counts"
  /\ txnCounts' = recordTransactionHighLevelStats(proc[p].sv, txnCounts)
  /\ \E b \in BOOLEAN :
       proc' = [proc EXCEPT ![p] = [@ EXCEPT !.pc = "t_get",
                                             !.sv.TxnStatsEnable = b]]
  /\ UNCHANGED <<monitored, fingerprintLimit, acc, stmts, txns, stmtObjs, txnObjs, smu,
                 uniqueCount, applied, calls, flushes>>

\* The latency threshold is not consulted.
SkipOnlyWhenDisabled(sv) == ~sv.TxnStatsEnable

\* lines 206-215
SkipTxnDetail(sv) == ~sv.TxnStatsEnable \/ sv.LatencyThreshold > 0

\* lines 205-222
RecordTransactionGet(p) ==
  /\ proc[p].pc = "t_get"
  /\ IF SkipTxnDetail(proc[p].sv)
       THEN /\ proc' = Return(p, 0, NoErr)
            /\ UNCHANGED <<txns, txnObjs, uniqueCount>>
       ELSE /\ smu = 0
            /\ LET r == getStatsForTxnWithKey(proc[p].key, TRUE)
               IN /\ txns' = r.txns
                  /\ txnObjs' = r.objs
                  /\ uniqueCount' = r.count
                  /\ proc' = IF r.throttled
                               THEN Return(p, 0, ErrFingerprintLimitReached)
                             ELSE [proc EXCEPT ![p] =
                                     [@ EXCEPT !.pc = "t_lock",
                                               !.sv = NoSettings,
                                               !.stats = r.stats,
                                               !.created = r.created]]
  /\ UNCHANGED <<monitored, fingerprintLimit, acc, stmts, stmtObjs, smu, txnCounts,
                 applied, calls, flushes>>

\* line 225
RecordTransactionLock(p) ==
  /\ proc[p].pc = "t_lock"
  /\ MuFree(txnObjs[proc[p].stats].mu)
  /\ txnObjs' = [txnObjs EXCEPT ![proc[p].stats].mu = p]
  /\ proc' = [proc EXCEPT ![p] =
                [@ EXCEPT !.pc = IF proc[p].created THEN "t_smu" ELSE "t_update"]]
  /\ UNCHANGED <<monitored, fingerprintLimit, acc, stmts, txns, stmtObjs, smu,
                 uniqueCount, txnCounts, applied, calls, flushes>>

\* line 237
RecordTransactionLockContainer(p) ==
  /\ proc[p].pc = "t_smu"
  /\ smu = 0
  /\ smu' = p
  /\ proc' = [proc EXCEPT ![p] = [@ EXCEPT !.pc = "t_account"]]
  /\ UNCHANGED <<monitored, fingerprintLimit, acc, stmts, txns, stmtObjs, txnObjs,
                 uniqueCount, txnCounts, applied, calls, flushes>>

\* lines 234-235
estimatedMemAllocBytes(k) == txnStatsSize + txnKeySize(k) + HashSize

\* The transaction entry is left in the map when Grow fails.
TxnsKept(k, ok) == txns

\* lines 242-245: the entry just created is deleted when Grow fails
TxnsAfterGrow(k, ok) == IF ok THEN txns ELSE [txns EXCEPT ![k] = 0]

\* lines 236-250
RecordTransactionAccount(p) ==
  /\ proc[p].pc = "t_account"
  /\ LET i == proc[p].stats
         k == proc[p].key
         x == estimatedMemAllocBytes(k)
     IN IF MonitorIsNil
          THEN /\ UNCHANGED <<acc, txns, txnObjs>>
               /\ proc' = [proc EXCEPT ![p] = [@ EXCEPT !.pc = "t_update"]]
          ELSE \E canceled \in BOOLEAN :
                 IF GrowOK(x, canceled)
                   THEN /\ acc' = acc + x
                        /\ txns' = TxnsAfterGrow(k, TRUE)
                        /\ UNCHANGED txnObjs
                        /\ proc' = [proc EXCEPT ![p] = [@ EXCEPT !.pc = "t_update"]]
                   ELSE /\ acc' = acc
                        /\ txns' = TxnsAfterGrow(k, FALSE)
                        /\ txnObjs' = [txnObjs EXCEPT ![i].mu = 0]
                        /\ proc' = Return(p, 0, ErrMemoryPressure)
  /\ smu' = ContainerUnlocked(p)
  /\ UNCHANGED <<monitored, fingerprintLimit, stmts, stmtObjs, uniqueCount, txnCounts,
                 applied, calls, flushes>>

\* lines 253-289
UpdateTxnStats(e, v) ==
  [e EXCEPT !.Count = @ + 1,
            !.MaxRetries = IF v.RetryCount > @ THEN v.RetryCount ELSE @,
            !.ExecStatsCount = IF v.CollectedExecStats THEN @ + 1 ELSE @]

\* lines 253-291, and the deferred unlock of stats.mu
RecordTransactionUpdate(p) ==
  /\ proc[p].pc = "t_update"
  /\ LET i == proc[p].stats
     IN txnObjs' = [txnObjs EXCEPT
                      ![i] = [UpdateTxnStats(@, proc[p].value) EXCEPT !.mu = 0]]
  /\ proc' = Return(p, 0, NoErr)
  /\ UNCHANGED <<monitored, fingerprintLimit, acc, stmts, txns, stmtObjs, smu,
                 uniqueCount, txnCounts, applied, calls, flushes>>

\* ------------------------------------------------------- environment

\* The external flush: under s.mu it clears both maps, releases the
\* memory they were accounted for and gives their keys back to the limiter.
Flush ==
  /\ smu = 0
  /\ flushes < MaxFlushes
  /\ flushes' = flushes + 1
  /\ uniqueCount' = uniqueCount - Cardinality({k \in Keys : stmts[k] # 0})
                                - Cardinality({k \in Keys : txns[k] # 0})
  /\ stmts' = [k \in Keys |-> 0]
  /\ txns' = [k \in Keys |-> 0]
  /\ acc' = 0
  /\ UNCHANGED <<monitored, fingerprintLimit, stmtObjs, txnObjs, smu, txnCounts, proc,
                 applied, calls>>

ProcStep(p) ==
  \/ CallRecordStatement(p)
  \/ RecordStatementGet(p)
  \/ RecordStatementLock(p)
  \/ RecordStatementUpdate(p)
  \/ RecordStatementLockContainer(p)
  \/ RecordStatementAccount(p)
  \/ CallRecordStatementExecStats(p)
  \/ RecordStatementExecStatsGet(p)
  \/ RecordStatementExecStatsRecord(p)
  \/ CallRecordTransaction(p)
  \/ RecordTransactionCounts(p)
  \/ RecordTransactionGet(p)
  \/ RecordTransactionLock(p)
  \/ RecordTransactionLockContainer(p)
  \/ RecordTransactionAccount(p)
  \/ RecordTransactionUpdate(p)

Next ==
  \/ \E p \in Procs : ProcStep(p)
  \/ Flush

Spec == Init /\ [][Next]_vars

\* ---------------------------------------------------------------- claims

\* Caller p takes the step that leaves position pc.
StepFrom(p, pc) == proc[p].pc = pc /\ proc'[p].pc # pc

\* The container's maps, entries, limiter and memory balance.
container == <<stmts, txns, stmtObjs, txnObjs, uniqueCount, acc>>

Quiescent == \A p \in Procs : proc[p].pc = "idle"

StmtPositions == {"s_get", "s_lock", "s_update", "s_smu", "s_account"}

\* C1: every RecordStatement call that has returned, on whichever path and
\* with whichever error, returned the fingerprint identifier of its key.
C1_FingerprintIDStable ==
  \A p \in Procs :
    (proc[p].pc = "idle" /\ proc[p].op = "RecordStatement")
      => proc[p].id = constructStatementFingerprintID(proc[p].key)

\* Two calls on one key have returned, one rolled back on memory pressure and
\* one refused by the limiter, with the same identifier.
C1_Witness ==
  \E p, q \in Procs :
    /\ proc[p].pc = "idle" /\ proc[q].pc = "idle"
    /\ proc[p].op = "RecordStatement" /\ proc[q].op = "RecordStatement"
    /\ proc[p].key = proc[q].key
    /\ proc[p].err = ErrMemoryPressure
    /\ proc[q].err = ErrFingerprintLimitReached
    /\ proc[p].id = proc[q].id

\* C2: when RecordStatement has created the entry and Grow fails, its step
\* returns ErrMemoryPressure, the key has no entry after it and the balance
\* is what it was; no other step of a RecordStatement call touches the
\* balance except the successful Grow.
C2_RollbackOnMemoryPressure ==
  [][\A p \in Procs :
       /\ (StepFrom(p, "s_account") /\ monitored) =>
            /\ proc'[p].pc = "idle"
            /\ proc'[p].err \in {NoErr, ErrMemoryPressure}
            /\ (acc + estimatedMemoryAllocBytes(proc[p].key) > MemoryBudget
                  => proc'[p].err = ErrMemoryPressure)
            /\ (proc'[p].err = ErrMemoryPressure
                  => /\ stmts'[proc[p].key] = 0
                     /\ acc' = acc)
       /\ (proc[p].pc \in StmtPositions /\ proc'[p] # proc[p]
             /\ ~(proc[p].pc = "s_account" /\ proc'[p].err = NoErr))
            => acc' = acc]_vars

\* A creating call has returned ErrMemoryPressure and its key has no entry.
C2_Witness ==
  \E p \in Procs :
    /\ proc[p].pc = "idle" /\ proc[p].op = "RecordStatement"
    /\ proc[p].created /\ proc[p].err = ErrMemoryPressure
    /\ stmts[proc[p].key] = 0
    /\ flushes = 0

\* C3: a RecordStatement call that wants detail for a key without entry
\* while the limiter refuses returns the key's identifier with
\* ErrFingerprintLimitReached and leaves the container as it was (so the
\* limiter still refuses and the key is still absent for the next call);
\* ErrFingerprintLimitReached is returned in no other case.
C3_ThrottledChangesNothing ==
  [][\A p \in Procs :
       StepFrom(p, "s_get") =>
         LET k == proc[p].key
             refused == /\ createIfNonExistent(proc[p].sv, proc[p].value)
                        /\ stmts[k] = 0
                        /\ LimiterRefuses
         IN /\ refused =>
                 /\ proc'[p].pc = "idle"
                 /\ proc'[p].err = ErrFingerprintLimitReached
                 /\ proc'[p].id = constructStatementFingerprintID(k)
                 /\ UNCHANGED container
                 /\ stmts'[k] = 0
            /\ proc'[p].err = ErrFingerprintLimitReached => refused]_vars

\* A call has been refused by the limiter and its key has no entry.
C3_Witness ==
  \E p \in Procs :
    /\ proc[p].pc = "idle" /\ proc[p].op = "RecordStatement"
    /\ proc[p].err = ErrFingerprintLimitReached
    /\ stmts[proc[p].key] = 0
    /\ uniqueCount >= fingerprintLimit

\* C4: RecordStatementExecStats on a key without entry returns
\* ErrExecStatsFingerprintFlushed and changes nothing in the container; on a
\* key with an entry its lookup creates nothing and the call returns nil,
\* having touched neither the maps nor the balance.
C4_ExecStatsLookupOnly ==
  [][\A p \in Procs :
       /\ StepFrom(p, "e_get") =>
            /\ UNCHANGED container
            /\ IF stmts[proc[p].key] = 0
                 THEN /\ proc'[p].pc = "idle"
                      /\ proc'[p].err = ErrExecStatsFingerprintFlushed
                 ELSE /\ proc'[p].pc = "e_record"
                      /\ proc'[p].stats = stmts[proc[p].key]
       /\ StepFrom(p, "e_record") =>
            /\ proc'[p].pc = "idle"
            /\ proc'[p].err = NoErr
            /\ UNCHANGED <<stmts, txns, txnObjs, uniqueCount, acc>>
            /\ Len(stmtObjs') = Len(stmtObjs)]_vars

\* The entry was recorded, flushed, and the later RecordStatementExecStats
\* call found nothing.
C4_Witness ==
  \E p \in Procs :
    /\ proc[p].pc = "idle" /\ proc[p].op = "RecordStatementExecStats"
    /\ proc[p].err = ErrExecStatsFingerprintFlushed
    /\ flushes = 1
    /\ Len(stmtObjs) = 1 /\ stmtObjs[1].Count = 1
    /\ stmtObjs[1].ID = constructStatementFingerprintID(proc[p].key)
    /\ stmts[proc[p].key] = 0

\* C5: a RecordStatement call that reads statement stats as disabled, or a
\* positive threshold above the statement's service latency, returns the
\* key's identifier with a nil error and leaves the container as it was.
C5_SkipChangesNothing ==
  [][\A p \in Procs :
       (/\ StepFrom(p, "s_get")
        /\ \/ ~proc[p].sv.StmtStatsEnable
           \/ /\ proc[p].sv.LatencyThreshold > 0
              /\ proc[p].value.ServiceLatency < proc[p].sv.LatencyThreshold)
         => /\ proc'[p].pc = "idle"
            /\ proc'[p].err = NoErr
            /\ proc'[p].id = constructStatementFingerprintID(proc[p].key)
            /\ UNCHANGED container]_vars

\* A call on a key with an entry has returned nil and the entry, recorded
\* once before, still has Count 1: the second call was skipped.
C5_Witness ==
  \E p, q \in Procs :
    /\ p # q
    /\ proc[p].pc = "idle" /\ proc[q].pc = "idle"
    /\ proc[p].op = "RecordStatement" /\ proc[q].op = "RecordStatement"
    /\ proc[p].key = proc[q].key
    /\ proc[p].err = NoErr /\ proc[q].err = NoErr
    /\ flushes = 0
    /\ Len(stmtObjs) = 1
    /\ stmts[proc[p].key] = 1
    /\ stmtObjs[1].Count = 1

\* C6 as stated: with a positive latency threshold every RecordTransaction
\* call increments the lightweight transaction counter.
C6_AsStated ==
  [][\A p \in Procs :
       (StepFrom(p, "t_counts") /\ proc[p].sv.LatencyThreshold > 0)
         => txnCounts' = txnCounts + 1]_vars

\* C6, amended: with a positive latency threshold a RecordTransaction call
\* increments the lightweight counter exactly when it reads transaction
\* stats as enabled; either way it then returns nil without consulting the
\* limiter and leaves the maps, the entries and the balance as they were.
C6_ThresholdSkipsTxnDetail ==
  [][\A p \in Procs :
       /\ (StepFrom(p, "t_counts") /\ proc[p].sv.LatencyThreshold > 0) =>
            /\ txnCounts' = IF proc[p].sv.TxnStatsEnable
                              THEN txnCounts + 1 ELSE txnCounts
            /\ UNCHANGED container
       /\ (StepFrom(p, "t_get") /\ proc[p].sv.LatencyThreshold > 0) =>
            /\ proc'[p].pc = "idle"
            /\ proc'[p].err = NoErr
            /\ UNCHANGED <<container, txnCounts>>]_vars

\* A RecordTransaction call has returned nil, counted by the lightweight
\* counter, and no transaction entry was ever created.
C6_Witness ==
  \E p \in Procs :
    /\ proc[p].pc = "idle" /\ proc[p].op = "RecordTransaction"
    /\ proc[p].err = NoErr
    /\ txnCounts = 1 /\ calls = 1
    /\ Len(txnObjs) = 0

RECURSIVE CountZeros(_)
CountZeros(seq) ==
  IF seq = <<>> THEN 0
  ELSE (IF Head(seq) = 0 THEN 1 ELSE 0) + CountZeros(Tail(seq))

RECURSIVE MaxOf(_)
MaxOf(seq) ==
  IF seq = <<>> THEN 0
  ELSE LET m == MaxOf(Tail(seq)) IN IF Head(seq) > m THEN Head(seq) ELSE m

\* No call is in progress on stmtStats object i.
NoCallOn(i) ==
  \A p \in Procs : ~(proc[p].pc \in StmtPositions /\ proc[p].stats = i)

\* C7: an entry that is in the map, with no call in progress on it, has as
\* Count the number of recordings applied to it, as FirstAttemptCount the
\* number of those with AutoRetryCount 0 and as MaxRetries the largest
\* AutoRetryCount among them (0 when there is none above 0).
C7_CountersMatchRecordings ==
  \A k \in Keys :
    (stmts[k] # 0 /\ NoCallOn(stmts[k])) =>
      LET e == stmtObjs[stmts[k]]
          h == applied[stmts[k]]
      IN /\ e.Count = Len(h)
         /\ e.FirstAttemptCount = CountZeros(h)
         /\ e.MaxRetries = MaxOf(h)

\* Two recordings on one retained entry, the larger retry count first.
C7_Witness ==
  \E k \in Keys :
    /\ stmts[k] # 0 /\ NoCallOn(stmts[k])
    /\ Quiescent
    /\ \A p \in Procs : proc[p].err = NoErr
    /\ applied[stmts[k]] = <<MaxRetry, 1>>
    /\ stmtObjs[stmts[k]].MaxRetries = MaxRetry

\* C8: the update of a recording with Failed = true adds one to Count and to
\* FailureCount and sets the last error text and code from the supplied
\* error; with Failed = false it adds one to Count and leaves FailureCount
\* and the last error text and code as they were.
C8_FailureCounters ==
  [][\A p \in Procs :
       StepFrom(p, "s_update") =>
         LET e == stmtObjs[proc[p].stats]
             f == stmtObjs'[proc[p].stats]
             v == proc[p].value
         IN /\ f.Count = e.Count + 1
            /\ IF v.Failed
                 THEN /\ f.FailureCount = e.FailureCount + 1
                      /\ f.LastErr = v.StatementError.msg
                      /\ f.LastErrorCode = v.StatementError.code
                 ELSE /\ f.FailureCount = e.FailureCount
                      /\ f.LastErr = e.LastErr
                      /\ f.LastErrorCode = e.LastErrorCode]_vars

\* An entry recorded twice, both failed, holds the second error.
C8_Witness ==
  \E k \in Keys :
    /\ stmts[k] # 0
    /\ stmtObjs[stmts[k]].Count = 2
    /\ stmtObjs[stmts[k]].FailureCount = 2
    /\ stmtObjs[stmts[k]].LastErrorCode = "22012"
    /\ Quiescent

\* C9: whatever the interleaving, the Count of every entry is the number of
\* recordings applied to it: no increment is lost.
C9_NoLostUpdate ==
  \A i \in 1..Len(stmtObjs) : stmtObjs[i].Count = Len(applied[i])

\* Two calls on one fingerprint overlap: one has applied its recording and
\* still holds the entry's lock, the other waits for that lock.
C9_Witness ==
  \E p, q \in Procs :
    /\ p # q
    /\ proc[p].pc = "s_lock"
    /\ proc[q].pc \in {"s_smu", "s_account"}
    /\ proc[p].stats = proc[q].stats
    /\ stmtObjs[proc[q].stats].mu = q
    /\ stmtObjs[proc[q].stats].Count = 1

RECURSIVE SumOver(_, _)
SumOver(S, f) ==
  IF S = {} THEN 0
  ELSE LET k == CHOOSE x \in S : TRUE IN f[k] + SumOver(S \ {k}, f)

\* The creation estimates of the entries that are in the maps.
AccountedFor ==
  SumOver({k \in Keys : stmts[k] # 0},
          [k \in Keys |-> estimatedMemoryAllocBytes(k)])
  + SumOver({k \in Keys : txns[k] # 0},
            [k \in Keys |-> estimatedMemAllocBytes(k)])

\* A step of caller p in a call that did not create its entry.
UpdateOnlyStep(p) ==
  /\ proc'[p] # proc[p]
  /\ proc[p].pc \in {"s_lock", "s_update", "t_lock", "t_update", "e_record"}
  /\ ~proc[p].created

\* C10 as stated: with no call in progress and no flush so far, the balance
\* is the sum of the creation estimates of the entries in the maps.
C10_AsStated ==
  (Quiescent /\ flushes = 0) => acc = AccountedFor

\* C10, amended: the same when a memory budget is configured (with none the
\* balance stays 0 whatever the maps hold); and a step that updates an
\* entry its call did not create leaves the balance as it was.
C10_BalanceMatchesMaps ==
  [][/\ (Quiescent' /\ flushes' = 0) =>
          acc' = IF monitored THEN AccountedFor' ELSE 0
     /\ \A p \in Procs : UpdateOnlyStep(p) => acc' = acc]_vars

\* With a budget, a statement entry and a transaction entry are retained
\* and both accounted for.
C10_Witness ==
  /\ monitored /\ Quiescent /\ flushes = 0
  /\ \E k \in Keys : stmts[k] # 0
  /\ \E k \in Keys : txns[k] # 0
  /\ acc = AccountedFor
  /\ acc > 0

\* The number of distinct entries the container tracks.
Entries ==
  Cardinality({k \in Keys : stmts[k] # 0}) +
  Cardinality({k \in Keys : txns[k] # 0})

\* C11: in every reachable state, the states in the middle of concurrent
\* RecordStatement and RecordTransaction calls on new keys included, the
\* number of distinct entries tracked is at most the limiter's cap (and at
\* most the number of keys the limiter has admitted).
C11_EntriesWithinCap ==
  /\ Entries <= fingerprintLimit
  /\ Entries <= uniqueCount
  /\ uniqueCount <= fingerprintLimit

\* A RecordStatement call that created its entry is still in progress, the
\* container is at the cap, and a concurrent RecordTransaction call on a
\* new key has been refused.
C11_Witness ==
  \E p, q \in Procs :
    /\ proc[p].op = "RecordStatement" /\ proc[p].pc = "s_lock"
    /\ proc[p].created
    /\ proc[q].op = "RecordTransaction" /\ proc[q].pc = "idle"
    /\ proc[q].err = ErrFingerprintLimitReached
    /\ Entries = fingerprintLimit

\* C12: with no memory budget (the monitor is nil), RecordStatement and
\* RecordTransaction never return ErrMemoryPressure, never reserve memory
\* (the balance stays 0) and never remove the entry they created: the
\* creating call leaves its entry in the map with its update applied.
C12_UntrackedNeverFails ==
  [][~monitored =>
       /\ acc' = 0
       /\ \A p \in Procs :
            /\ proc'[p].err # ErrMemoryPressure
            /\ StepFrom(p, "s_account") =>
                 /\ stmts' = stmts
                 /\ flushes = 0 => stmts'[proc[p].key] = proc[p].stats
                 /\ stmtObjs'[proc[p].stats].Count >= 1
                 /\ proc'[p].pc = "idle" /\ proc'[p].err = NoErr
            /\ StepFrom(p, "t_account") =>
                 /\ txns' = txns
                 /\ flushes = 0 => txns'[proc[p].key] = proc[p].stats
                 /\ proc'[p].pc = "t_update"
            /\ (StepFrom(p, "t_update") /\ proc[p].created) =>
                 /\ txns' = txns
                 /\ flushes = 0 => txns'[proc[p].key] = proc[p].stats
                 /\ txnObjs'[proc[p].stats].Count = txnObjs[proc[p].stats].Count + 1
                 /\ proc'[p].pc = "idle" /\ proc'[p].err = NoErr]_vars

\* With no budget, a statement entry and a transaction entry were created
\* and updated, both calls returned nil and nothing was reserved.
C12_Witness ==
  /\ ~monitored /\ Quiescent /\ flushes = 0
  /\ \E k \in Keys : stmts[k] # 0 /\ stmtObjs[stmts[k]].Count = 1
  /\ \E k \in Keys : txns[k] # 0 /\ txnObjs[txns[k]].Count = 1
  /\ \A p \in Procs : proc[p].err = NoErr
  /\ acc = 0

\* C13: the transaction-stats-enabled option gates the lightweight counter
\* and the detailed aggregation alike: a RecordTransaction call that reads
\* it off leaves the counter as it was, returns nil and changes neither a
\* transaction entry nor the memory balance; the option is read by each
\* call, and a call that reads it on counts.
C13_TxnStatsEnableGatesBoth ==
  [][\A p \in Procs :
       /\ (StepFrom(p, "t_counts") /\ ~proc[p].sv.TxnStatsEnable) =>
            /\ txnCounts' = txnCounts
            /\ container' = container
       /\ (StepFrom(p, "t_counts") /\ proc[p].sv.TxnStatsEnable) =>
            txnCounts' = txnCounts + 1
       /\ (StepFrom(p, "t_get") /\ ~proc[p].sv.TxnStatsEnable) =>
            /\ proc'[p].pc = "idle" /\ proc'[p].err = NoErr
            /\ txnCounts' = txnCounts
            /\ container' = container]_vars

\* Two RecordTransaction calls returned nil: one read the option off and
\* did not count, the other read it on and counted.
C13_Witness ==
  /\ Quiescent /\ calls = 2
  /\ \A p \in Procs : proc[p].op = "RecordTransaction" /\ proc[p].err = NoErr
  /\ txnCounts = 1
  /\ Entries = 0

\* C14 as stated: once an entry has been removed from the map because its
\* creator failed memory accounting, no other caller applies an update
\* through a reference it still holds and returns success. With no flush
\* so far the rollback is the only removal, so a caller that did not
\* create its entry updates it and returns nil only while the map still
\* holds that entry under its key.
C14_AsStated ==
  [][\A p \in Procs :
       (/\ flushes = 0
        /\ ~proc[p].created
        /\ \/ StepFrom(p, "s_update")
           \/ StepFrom(p, "e_record")
           \/ StepFrom(p, "t_update")
        /\ proc'[p].err = NoErr) =>
          IF proc[p].op = "RecordTransaction"
            THEN txns[proc[p].key] = proc[p].stats
            ELSE stmts[proc[p].key] = proc[p].stats]_vars

\* Caller p holds the lock of the entry it works on.
HoldsEntryLock(p) ==
  \/ /\ proc[p].pc \in {"s_update", "s_smu", "s_account"}
     /\ stmtObjs[proc[p].stats].mu = p
  \/ /\ proc[p].pc \in {"t_smu", "t_account", "t_update"}
     /\ txnObjs[proc[p].stats].mu = p

\* Caller p stands before stats.mu.Lock() of its entry.
WaitsForEntryLock(p) == proc[p].pc \in {"s_lock", "t_lock", "e_record"}

\* Caller p stands before a lock that somebody holds.
Blocked(p) ==
  \/ proc[p].pc \in {"s_get", "e_get", "s_smu", "t_smu"} /\ smu # 0
  \/ proc[p].pc = "t_get" /\ ~SkipTxnDetail(proc[p].sv) /\ smu # 0
  \/ proc[p].pc \in {"s_lock", "e_record"} /\ stmtObjs[proc[p].stats].mu # 0
  \/ proc[p].pc = "t_lock" /\ txnObjs[proc[p].stats].mu # 0

\* While a call is in progress, some call in progress can take its step.
NoDeadlock ==
  (\E p \in Procs : proc[p].pc # "idle") =>
     \E p \in Procs : proc[p].pc # "idle" /\ ~Blocked(p)

\* The holder of the container lock is in its accounting section and holds
\* its entry's lock; nobody who stands before an entry lock holds the
\* container lock.
LockOrder ==
  /\ smu # 0 => /\ proc[smu].pc \in {"s_account", "t_account"}
                /\ HoldsEntryLock(smu)
  /\ \A p \in Procs : WaitsForEntryLock(p) => smu # p

\* C15: a caller that holds both locks took the entry's lock first and the
\* container lock second; no caller waits for an entry lock while it holds
\* the container lock; no interleaving of concurrent callers reaches a
\* deadlock.
C15_EntryLockBeforeContainerLock ==
  [][/\ \A p \in Procs :
          /\ (smu # p /\ smu' = p) => HoldsEntryLock(p)
          /\ (~HoldsEntryLock(p) /\ HoldsEntryLock(p)') => smu # p
     /\ LockOrder'
     /\ NoDeadlock']_vars

\* One caller holds both locks while the other waits for the same entry's
\* lock.
C15_Witness ==
  \E p, q \in Procs :
    /\ smu = p /\ HoldsEntryLock(p)
    /\ WaitsForEntryLock(q) /\ Blocked(q)
    /\ proc[q].op = proc[p].op /\ proc[q].stats = proc[p].stats

\* The callers in progress that created entry i of the given operation.
CreatorsOf(op, i) ==
  {p \in Procs : /\ proc[p].pc # "idle" /\ proc[p].op = op
                 /\ proc[p].stats = i /\ proc[p].created}

\* The callers in the memory accounting section for entry i.
AccountingFor(op, i) ==
  {p \in Procs : /\ proc[p].pc \in {"s_smu", "s_account", "t_smu", "t_account"}
                 /\ proc[p].op = op /\ proc[p].stats = i}

\* Distinct keys have distinct entries.
OneEntryPerKey ==
  \A j, k \in Keys :
    /\ (stmts[j] # 0 /\ stmts[j] = stmts[k]) => j = k
    /\ (txns[j] # 0 /\ txns[j] = txns[k]) => j = k

\* C16: when callers race on the same new key, at most one of them observes
\* created = true for the entry and goes through the memory accounting for
\* it; a caller whose lookup finds the key in the map gets that very entry,
\* with created = false, and no second entry is made; a key maps to at most
\* one entry.
C16_OneCreatorPerEntry ==
  [][/\ \A i \in 1..Len(stmtObjs') :
          /\ Cardinality(CreatorsOf("RecordStatement", i)') <= 1
          /\ Cardinality(AccountingFor("RecordStatement", i)') <= 1
     /\ \A i \in 1..Len(txnObjs') :
          /\ Cardinality(CreatorsOf("RecordTransaction", i)') <= 1
          /\ Cardinality(AccountingFor("RecordTransaction", i)') <= 1
     /\ OneEntryPerKey'
     /\ \A p \in Procs :
          /\ (StepFrom(p, "s_get") /\ stmts[proc[p].key] # 0
                /\ proc'[p].pc = "s_lock") =>
               /\ ~proc'[p].created
               /\ proc'[p].stats = stmts[proc[p].key]
               /\ stmtObjs' = stmtObjs /\ stmts' = stmts
          /\ (StepFrom(p, "t_get") /\ txns[proc[p].key] # 0
                /\ proc'[p].pc = "t_lock") =>
               /\ ~proc'[p].created
               /\ proc'[p].stats = txns[proc[p].key]
               /\ txnObjs' = txnObjs /\ txns' = txns]_vars

\* Two RecordStatement callers race on one key: one created the entry, the
\* other found it, and both work on the same entry.
C16_Witness ==
  \E p, q \in Procs :
    /\ proc[p].op = "RecordStatement" /\ proc[q].op = "RecordStatement"
    /\ proc[p].pc \in {"s_lock", "s_update"} /\ proc[q].pc = "s_lock"
    /\ proc[p].key = proc[q].key
    /\ proc[p].created /\ ~proc[q].created
    /\ proc[p].stats = proc[q].stats
    /\ stmts[proc[p].key] = proc[p].stats

\* C17: when RecordTransaction created its entry and Grow fails, the call
\* returns ErrMemoryPressure, the transactions map has no entry for the key
\* afterwards, the balance is as it was and the call has applied no update
\* (Count is not incremented); Grow fails whenever the budget would be
\* exceeded; when Grow succeeds the estimate is reserved while Count is
\* still untouched, and the call's update comes after it.
C17_TxnRollbackOnMemoryPressure ==
  [][\A p \in Procs :
       LET i == proc[p].stats
           k == proc[p].key
       IN /\ (StepFrom(p, "t_account") /\ monitored) =>
               /\ txnObjs'[i].Count = txnObjs[i].Count
               /\ txnObjs'[i].MaxRetries = txnObjs[i].MaxRetries
               /\ txnObjs'[i].ExecStatsCount = txnObjs[i].ExecStatsCount
               /\ (acc + estimatedMemAllocBytes(k) > MemoryBudget) =>
                    proc'[p].pc = "idle"
               /\ IF proc'[p].pc = "idle"
                    THEN /\ proc'[p].err = ErrMemoryPressure
                         /\ txns'[k] = 0
                         /\ acc' = acc
                         /\ txnObjs'[i].mu = 0 /\ smu' = 0
                    ELSE /\ proc'[p].pc = "t_update"
                         /\ acc' = acc + estimatedMemAllocBytes(k)
                         /\ txns' = txns
          /\ StepFrom(p, "t_update") =>
               /\ txnObjs'[i].Count = txnObjs[i].Count + 1
               /\ acc' = acc
               /\ proc'[p].err = NoErr]_vars

\* A RecordTransaction call on a new key found the budget exhausted by a
\* statement entry: it returned ErrMemoryPressure, its key is not in the
\* map, the balance is what the statement entry took, and the entry it had
\* created was never updated.
C17_Witness ==
  \E p \in Procs :
    /\ proc[p].op = "RecordTransaction" /\ proc[p].pc = "idle"
    /\ proc[p].err = ErrMemoryPressure
    /\ txns[proc[p].key] = 0
    /\ Len(txnObjs) = 1 /\ txnObjs[1].Count = 0
    /\ acc > 0 /\ acc = AccountedFor
    /\ acc + estimatedMemAllocBytes(proc[p].key) > MemoryBudget

\* The steps of a call of p that is in progress.
Progress(p) ==
  \/ RecordStatementGet(p)
  \/ RecordStatementLock(p)
  \/ RecordStatementUpdate(p)
  \/ RecordStatementLockContainer(p)
  \/ RecordStatementAccount(p)
  \/ RecordStatementExecStatsGet(p)
  \/ RecordStatementExecStatsRecord(p)
  \/ RecordTransactionCounts(p)
  \/ RecordTransactionGet(p)
  \/ RecordTransactionLock(p)
  \/ RecordTransactionLockContainer(p)
  \/ RecordTransactionAccount(p)
  \/ RecordTransactionUpdate(p)

\* The values being recorded are plain: no failure, no retry, no execution
\* statistics. Which fields a call records does not steer its control
\* flow; the service latency and the settings, which do, stay free.
PlainValues ==
  \A p \in Procs :
    \/ proc[p].value = NoValue
    \/ /\ proc[p].op = "RecordStatement"
       /\ ~proc[p].value.Failed /\ proc[p].value.AutoRetryCount = 0
    \/ /\ proc[p].op = "RecordTransaction"
       /\ proc[p].value.RetryCount = 0 /\ ~proc[p].value.CollectedExecStats

PlainCallRecordStatement(p) == CallRecordStatement(p) /\ PlainValues'

PlainCallRecordTransaction(p) == CallRecordTransaction(p) /\ PlainValues'

\* Next, with the calls restricted to plain values.
FairNext ==
  \/ \E p \in Procs : \/ PlainCallRecordStatement(p)
                      \/ PlainCallRecordTransaction(p)
                      \/ CallRecordStatementExecStats(p)
                      \/ Progress(p)
  \/ Flush

\* Fair scheduling: a caller whose next step is possible again and again
\* takes it (a goroutine is scheduled, and a mutex that keeps being
\* released is handed to a waiter). Nothing obliges a caller to start a
\* call, nor the flush to happen.
FairSpec ==
  Init /\ [][FairNext]_vars /\ \A p \in Procs : SF_vars(Progress(p))

\* Caller p holds neither the container lock nor any entry's lock.
HoldsNoLock(p) ==
  /\ smu # p
  /\ \A i \in 1..Len(stmtObjs) : stmtObjs[i].mu # p
  /\ \A i \in 1..Len(txnObjs) : txnObjs[i].mu # p

\* C18: under fair scheduling every RecordStatement, RecordTransaction and
\* RecordStatementExecStats call in progress eventually returns, and a
\* caller that has returned holds no lock, whichever way it returned; a
\* Grow that fails while the budget is not exhausted (the context was
\* canceled) ends the call as exhaustion does: the entry is removed and
\* ErrMemoryPressure returned.
C18_EveryCallReturns ==
  /\ [](\A p \in Procs : proc[p].pc = "idle" => HoldsNoLock(p))
  /\ [][\A p \in Procs :
          /\ (StepFrom(p, "s_account") /\ acc' = acc /\ monitored) =>
               /\ proc'[p].pc = "idle" /\ proc'[p].err = ErrMemoryPressure
               /\ stmts'[proc[p].key] = 0
          /\ (StepFrom(p, "t_account") /\ acc' = acc /\ monitored) =>
               /\ proc'[p].pc = "idle" /\ proc'[p].err = ErrMemoryPressure
               /\ txns'[proc[p].key] = 0]_vars
  /\ \A p \in Procs : (proc[p].pc # "idle") ~> (proc[p].pc = "idle")

\* Both callers have returned, one of them with ErrMemoryPressure from a
\* Grow that failed while the budget had room for its entry (a canceled
\* context), and no lock is held.
C18_Witness ==
  /\ Quiescent /\ calls = MaxCalls
  /\ \A p \in Procs : HoldsNoLock(p)
  /\ \E p \in Procs :
       /\ proc[p].op = "RecordStatement"
       /\ proc[p].err = ErrMemoryPressure
       /\ acc + estimatedMemoryAllocBytes(proc[p].key) <= MemoryBudget

\* C19 as stated: no caller other than its creator takes the lock of a
\* statement entry, or records execution statistics on it, while the
\* entry's Count is still 0.
C19_AsStated ==
  [][\A p \in Procs :
       (/\ ~proc[p].created
        /\ StepFrom(p, "s_lock") \/ StepFrom(p, "e_record")) =>
          stmtObjs[proc[p].stats].Count > 0]_vars

\* C19, amended: an entry becomes visible, in the lookup-or-create step,
\* with its initial fields set: its identifier is the fingerprint of its
\* key, its counters are zero and its lock is free. A caller that did not
\* create it may take its lock while Count is still 0; it then finds those
\* initial fields (but for execution statistics merged meanwhile), and
\* every entry a caller works on carries the fingerprint of the caller's
\* key.
C19_VisibleEntriesInitialized ==
  [][/\ \A k \in Keys :
          stmts'[k] # 0 =>
            stmtObjs'[stmts'[k]].ID = constructStatementFingerprintID(k)
     /\ \A p \in Procs :
          LET i == proc[p].stats
              id == constructStatementFingerprintID(proc[p].key)
          IN /\ (StepFrom(p, "s_get") /\ proc'[p].created) =>
                  /\ stmts'[proc[p].key] = proc'[p].stats
                  /\ stmtObjs'[proc'[p].stats] = NewStmtStats(id)
             /\ (StepFrom(p, "s_lock") /\ stmtObjs[i].Count = 0) =>
                  [stmtObjs[i] EXCEPT !.ExecStatsCount = 0] = NewStmtStats(id)
             /\ StepFrom(p, "e_record") => stmtObjs[i].ID = id]_vars

\* The creator of an entry still waits for the entry's lock while another
\* RecordStatement caller, which found the entry in the map, holds the lock
\* and has read Count = 0.
C19_Witness ==
  \E p, q \in Procs :
    /\ proc[p].op = "RecordStatement" /\ proc[p].pc = "s_lock"
    /\ proc[p].created
    /\ proc[q].op = "RecordStatement" /\ proc[q].pc = "s_update"
    /\ ~proc[q].created /\ proc[q].cnt = 0
    /\ proc[q].stats = proc[p].stats
    /\ stmts[proc[p].key] = proc[p].stats
    /\ stmtObjs[proc[p].stats].ID = constructStatementFingerprintID(proc[q].key)

\* C20 as stated: with statement stats enabled, RecordStatement skips the
\* detail exactly when the latency threshold T is positive and the
\* statement's service latency is below T; with the latency equal to T or
\* above it, or T not positive, the statement is recorded (the call goes on
\* to its entry, unless the limiter refuses a new key).
C20_AsStated ==
  [][\A p \in Procs :
       (StepFrom(p, "s_get") /\ proc[p].sv.StmtStatsEnable) =>
          IF /\ proc[p].sv.LatencyThreshold > 0
             /\ proc[p].value.ServiceLatency < proc[p].sv.LatencyThreshold
            THEN /\ proc'[p].pc = "idle" /\ proc'[p].err = NoErr
                 /\ container' = container
            ELSE \/ proc'[p].pc = "s_lock"
                 \/ /\ proc'[p].pc = "idle"
                    /\ proc'[p].err = ErrFingerprintLimitReached]_vars

====
